---- MODULE Spec2Model ----
(***************************************************************************)
(* Model of src/converters/upcasttable.js: the upcast (view -> model)      *)
(* converters of the table feature.                                        *)
(*                                                                         *)
(*   scanRowForHeadingColumns  pure function of a view <tr>                *)
(*   scanTable                 pure function of a view <table>             *)
(*   upcastTable               handler of the 'element:table' event        *)
(*   upcastTableCell           handler of the 'element:th|td' events       *)
(*                                                                         *)
(* A view node is a record [name, attributes, children].  A text node has  *)
(* the name "$text" and no children collection (it has no getChildren()).  *)
(* Attribute values are strings, modelled as sequences of one-character    *)
(* strings so that parseInt() is computed and not assumed.                 *)
(* A JavaScript number is a record [nan, val]: NaN is [nan |-> TRUE].      *)
(***************************************************************************)
EXTENDS Integers, Sequences, FiniteSets, TLC

VARIABLES
    data,        \* the conversion data of the event: viewItem, modelCursor, modelRange
    consumable,  \* the consumables of data.viewItem still in the ledger
    modelRoot,   \* the children of the root of the destination (model) tree
    tableMeta,   \* what scanTable returned in the last run of the table handler
    dispatched,  \* the view rows handed to conversionApi.convertItem, in call order
    outcome,     \* the path the last handler run took
    rowScan      \* what scanRowForHeadingColumns returned (row specification)

vars == <<data, consumable, modelRoot, tableMeta, dispatched, outcome, rowScan>>

----------------------------------------------------------------------------
(* Bounds of the model.                                                    *)

\* children of a <table> and children of those children, together
MaxTableNodes == 4
\* children of a <tr> in the row specification
MaxCells == 3
\* nodes that convertChildren puts into one part of a cell
MaxChildren == 1

----------------------------------------------------------------------------
(* JavaScript numbers.                                                     *)

Num(n) == [nan |-> FALSE, val |-> n]

NaN == [nan |-> TRUE, val |-> 0]

\* a + b
JsAdd(a, b) == IF a.nan \/ b.nan THEN NaN ELSE Num(a.val + b.val)

\* a > b
JsGreater(a, b) == ~a.nan /\ ~b.nan /\ a.val > b.val

\* if ( a )
JsTruthy(a) == ~a.nan /\ a.val # 0

----------------------------------------------------------------------------
(* parseInt( string ), radix 10.  No string of the model starts with "0x", *)
(* so the hexadecimal prefix of parseInt never applies.                    *)

Digits == {"0", "1", "2", "3", "4", "5", "6", "7", "8", "9"}

DigitVal(c) ==
    CASE c = "0" -> 0 [] c = "1" -> 1 [] c = "2" -> 2 [] c = "3" -> 3
      [] c = "4" -> 4 [] c = "5" -> 5 [] c = "6" -> 6 [] c = "7" -> 7
      [] c = "8" -> 8 [] c = "9" -> 9

RECURSIVE SkipWhiteSpace(_)
SkipWhiteSpace(s) ==
    IF s # <<>> /\ Head(s) = " " THEN SkipWhiteSpace(Tail(s)) ELSE s

\* the value of the longest prefix of digits of s, after the digits read so far
RECURSIVE ParseDigits(_, _, _)
ParseDigits(s, acc, seen) ==
    IF s # <<>> /\ Head(s) \in Digits
        THEN ParseDigits(Tail(s), 10 * acc + DigitVal(Head(s)), TRUE)
        ELSE [seen |-> seen, val |-> acc]

parseInt(str) ==
    LET s    == SkipWhiteSpace(str)
        neg  == s # <<>> /\ Head(s) = "-"
        body == IF s # <<>> /\ Head(s) \in {"-", "+"} THEN Tail(s) ELSE s
        d    == ParseDigits(body, 0, FALSE)
    IN  IF ~d.seen THEN NaN
        ELSE IF neg THEN Num(0 - d.val) ELSE Num(d.val)

----------------------------------------------------------------------------
(* View nodes.                                                             *)

ViewElement(name, attributes, children) ==
    [name |-> name, attributes |-> attributes, children |-> children]

ViewText == [name |-> "$text", attributes |-> <<>>, children |-> <<>>]

NoAttributes == <<>>

\* element.getAttribute( key ): undefined when the attribute is absent
hasAttribute(element, key) == key \in DOMAIN element.attributes

\* th.getAttribute( 'colspan' ) || 1, as the string parseInt() reads
colspanOrOne(th) ==
    IF hasAttribute(th, "colspan") /\ th.attributes["colspan"] # <<>>
        THEN th.attributes["colspan"]
        ELSE <<"1">>

\* Array.from( tr.getChildren() ).filter( child => child.name === 'th' || child.name === 'td' )
cellChildren(tr) == SelectSeq(tr.children, LAMBDA child : child.name \in {"th", "td"})

\* the while loop of scanRowForHeadingColumns, from children[ index ] on
RECURSIVE countHeadingColumns(_, _, _)
countHeadingColumns(children, index, headingColumns) ==
    IF index <= Len(children) /\ children[index].name = "th"
        THEN countHeadingColumns(children, index + 1,
                 JsAdd(headingColumns, parseInt(colspanOrOne(children[index]))))
        ELSE headingColumns

scanRowForHeadingColumns(tr) == countHeadingColumns(cellChildren(tr), 1, Num(0))

----------------------------------------------------------------------------
(* scanTable.  A row is referred to by its place <<i, j>>: child j of      *)
(* child i of the table, so that two rows of equal content stay distinct.  *)
(* firstTheadElement is the index of the table child, 0 while undefined.   *)

\* only an element has getChildren(); calling it on a text node is a TypeError
hasGetChildren(node) == node.name # "$text"

\* tableMeta, headRows, bodyRows and firstTheadElement at the start of scanTable
scanStart ==
    [ headingRows       |-> Num(0),
      headingColumns    |-> Num(0),
      headRows          |-> <<>>,
      bodyRows          |-> <<>>,
      firstTheadElement |-> 0,
      threw             |-> FALSE ]

\* one pass of the body of the inner loop: for ( const tr of tableChild.getChildren() )
scanTr(viewTable, i, j, s) ==
    LET tableChild == viewTable.children[i]
        tr         == tableChild.children[j]
    IN  IF tableChild.name = "thead" /\ i = s.firstTheadElement
            THEN [s EXCEPT !.headingRows = JsAdd(@, Num(1)),
                           !.headRows    = Append(@, <<i, j>>)]
            ELSE IF ~hasGetChildren(tr)
                THEN [s EXCEPT !.bodyRows = Append(@, <<i, j>>),
                               !.threw    = TRUE]
                ELSE LET headingCols == scanRowForHeadingColumns(tr)
                     IN  [s EXCEPT !.bodyRows = Append(@, <<i, j>>),
                                   !.headingColumns =
                                       IF JsGreater(headingCols, @) THEN headingCols ELSE @]

\* the inner loop, from child j of table child i on
RECURSIVE scanTrs(_, _, _, _)
scanTrs(viewTable, i, j, s) ==
    IF s.threw \/ j > Len(viewTable.children[i].children)
        THEN s
        ELSE scanTrs(viewTable, i, j + 1, scanTr(viewTable, i, j, s))

\* one pass of the body of the outer loop: for ( const tableChild of viewTable.getChildren() )
scanTableChild(viewTable, i, s) ==
    LET tableChild == viewTable.children[i]
    IN  IF tableChild.name \in {"tbody", "thead", "tfoot"}
            THEN scanTrs(viewTable, i, 1,
                     IF tableChild.name = "thead" /\ s.firstTheadElement = 0
                         THEN [s EXCEPT !.firstTheadElement = i]
                         ELSE s)
            ELSE s

\* the outer loop, from table child i on
RECURSIVE scanTableChildren(_, _, _)
scanTableChildren(viewTable, i, s) ==
    IF s.threw \/ i > Len(viewTable.children)
        THEN s
        ELSE scanTableChildren(viewTable, i + 1, scanTableChild(viewTable, i, s))

\* threw: the scan ended in a TypeError and returned nothing
scanTable(viewTable) ==
    LET s == scanTableChildren(viewTable, 1, scanStart)
    IN  [ threw          |-> s.threw,
          headingRows    |-> s.headingRows,
          headingColumns |-> s.headingColumns,
          rows           |-> s.headRows \o s.bodyRows ]

----------------------------------------------------------------------------
(* The destination (model) tree, the writer and the positions.             *)
(* A position is [path, offset]: path leads from the root to the parent    *)
(* (indices of children), offset counts the siblings before the position.  *)

ModelElement(name, attributes, children) ==
    [name |-> name, attributes |-> attributes, children |-> children]

Position(path, offset) == [path |-> path, offset |-> offset]

\* no value: undefined or null
Null == <<>>

\* new ModelRange( start, end )
ModelRange(start, end) == <<start, end>>

\* writer.insert( node, position ), on the children of the root
RECURSIVE writerInsert(_, _, _)
writerInsert(children, node, position) ==
    IF position.path = <<>>
        THEN SubSeq(children, 1, position.offset) \o <<node>>
                 \o SubSeq(children, position.offset + 1, Len(children))
        ELSE [children EXCEPT ![Head(position.path)].children =
                 writerInsert(@, node, Position(Tail(position.path), position.offset))]

\* the element a path leads to
RECURSIVE elementAt(_, _)
elementAt(children, path) ==
    IF Len(path) = 1 THEN children[Head(path)]
    ELSE elementAt(children[Head(path)].children, Tail(path))

\* the name of the parent of a position
parentName(children, position) ==
    IF position.path = <<>> THEN "$root" ELSE elementAt(children, position.path).name

\* createEmptyTableCell( writer, insertPosition ) of ../commands/utils:
\* a tableCell holding an empty paragraph
emptyTableCell ==
    ModelElement("tableCell", NoAttributes, <<ModelElement("paragraph", NoAttributes, <<>>)>>)

----------------------------------------------------------------------------
(* The consumption ledger of the view item: consumable holds its           *)
(* consumables that no converter has consumed.                             *)

\* the test left out: every item passes
consumableTestAlways(ledger) == TRUE

\* conversionApi.consumable.test( viewItem, { name: true } )
consumableTest(ledger) == "name" \in ledger

\* conversionApi.consumable.consume( viewItem, { name: true } )
consume(ledger) == ledger \ {"name"}

----------------------------------------------------------------------------
(* The dispatcher: conversionApi.splitToAllowedParent, convertItem and     *)
(* convertChildren.  They are not code of this module; the model draws     *)
(* their results from the sets below.                                      *)

\* what the schema allows as a direct child
allowedIn(parent, name) ==
    \/ parent = "$root" /\ name = "table"
    \/ parent = "tableRow" /\ name = "tableCell"

\* The results splitToAllowedParent may give for a node of that name at the cursor:
\* null; the cursor itself when its parent allows the node; or, when the cursor is
\* in a child of the root that does not allow it, that child split in two, the
\* position between the halves and the second half as cursorParent (its index).
\* root is the tree after the split.
splitToAllowedParent(root, name, modelCursor) ==
    LET parent == parentName(root, modelCursor)
        i      == Head(modelCursor.path)
        first  == [root[i] EXCEPT !.children = SubSeq(@, 1, modelCursor.offset)]
        second == [root[i] EXCEPT !.children = SubSeq(@, modelCursor.offset + 1, Len(@))]
    IN  {Null}
        \cup (IF allowedIn(parent, name)
                 THEN {<<[root |-> root, position |-> modelCursor, cursorParent |-> 0]>>}
                 ELSE {})
        \cup (IF ~allowedIn(parent, name) /\ Len(modelCursor.path) = 1
                     /\ allowedIn("$root", name)
                 THEN {<<[root |-> SubSeq(root, 1, i - 1) \o <<first, second>>
                                      \o SubSeq(root, i + 1, Len(root)),
                          position |-> Position(<<>>, i),
                          cursorParent |-> i + 1]>>}
                 ELSE {})

\* what converting one child of a view cell may do: produce nothing, put a node
\* into the cell, or produce a node the cell does not allow, which splits the cell
ChildResults == {"nothing", "child", "split"}

\* The nodes a cell becomes in its row when convertChildren ends: the cell itself
\* first, and after each split the node that caused it and the second half of
\* the cell, in which the conversion goes on.
RECURSIVE convertChildren(_, _, _)
convertChildren(parts, results, k) ==
    IF k > Len(results) THEN parts
    ELSE convertChildren(
             CASE results[k] = "nothing" -> parts
               [] results[k] = "child" ->
                    [parts EXCEPT ![Len(parts)].children =
                        Append(@, ModelElement("paragraph", NoAttributes, <<>>))]
               [] results[k] = "split" ->
                    parts \o << ModelElement("block", NoAttributes, <<>>),
                                ModelElement("tableCell", NoAttributes, <<>>) >>,
             results, k + 1)

----------------------------------------------------------------------------
(* upcastTableCell, from conversionApi.writer.createElement( 'tableCell' ) *)
(* to the placeholder: the nodes that stand in the row afterwards.         *)

tableCellNodes(results) ==
    LET tableCell == ModelElement("tableCell", NoAttributes, <<>>)
        parts     == convertChildren(<<tableCell>>, results, 1)
    IN  IF Len(parts[1].children) = 0
            THEN [parts EXCEPT ![1].children =
                     <<ModelElement("paragraph", NoAttributes, <<>>)>>]
            ELSE parts

\* what convertItem( row, end of table ) may do with a row of the scan: nothing
\* (the row is no <tr>, is consumed or cannot be placed), or a tableRow with a
\* cell for every <th> and <td> of the row
RowResults(row) ==
    IF row.name = "tr" THEN {"nothing", "tableRow"} ELSE {"nothing"}

RECURSIVE concat(_)
concat(seqs) == IF seqs = <<>> THEN <<>> ELSE Head(seqs) \o concat(Tail(seqs))

\* the nodes convertItem leaves at the end of the table for one row
convertItem(row, result) ==
    CASE result = "nothing" -> <<>>
      [] result = "tableRow" ->
            <<ModelElement("tableRow", NoAttributes,
                concat([c \in 1..Len(cellChildren(row)) |-> tableCellNodes(<<>>)]))>>

\* writer.insert for the nodes of one conversion, the first at the position
RECURSIVE insertNodes(_, _, _)
insertNodes(children, nodes, position) ==
    IF nodes = <<>> THEN children
    ELSE insertNodes(writerInsert(children, Head(nodes), position), Tail(nodes),
                     Position(position.path, position.offset + 1))

----------------------------------------------------------------------------
(* The inputs.                                                             *)

\* the sequences over S of length at most n
SeqsUpTo(S, n) == UNION {[1..k -> S] : k \in 0..n}

colspan(value) == [a \in {"colspan"} |-> value]

\* the colspan values of the row specification, as strings
Colspans ==
    { <<>>, <<"0">>, <<"1">>, <<"2">>, <<"-", "1">>, <<"a", "b", "c">>,
      <<"2", ".", "5">>, <<" ", "3">>, <<"3", "p", "x">> }

\* the children of a <tr> in the row specification
RowChildren ==
    {ViewElement("th", colspan(v), <<>>) : v \in Colspans}
        \cup { ViewElement("th", NoAttributes, <<>>),
               ViewElement("td", NoAttributes, <<>>),
               ViewText }

ViewRows == {ViewElement("tr", NoAttributes, c) : c \in SeqsUpTo(RowChildren, MaxCells)}

\* the children a <tr>, or another element in its place, has in a table
RowShapes ==
    { <<ViewElement("td", NoAttributes, <<>>)>>,
      <<ViewElement("th", colspan(<<"2">>), <<>>)>>,
      <<ViewElement("th", colspan(<<"-", "1">>), <<>>)>> }

\* the children an element that is no <tr> has in the place of a row
OtherShapes == { <<ViewElement("th", colspan(<<"2">>), <<>>)>> }

\* the children of a section: a <tr>, another element, a text node
SectionChildren ==
    {ViewElement("tr", NoAttributes, c) : c \in RowShapes}
        \cup {ViewElement("div", NoAttributes, c) : c \in OtherShapes}
        \cup {ViewText}

TableChildNames == {"thead", "tbody", "tfoot", "caption"}

\* the nodes among nodes[1..m] that place puts into table child i
childrenAt(nodes, place, i) ==
    SelectSeq([j \in 1..Len(nodes) |-> <<place[j], nodes[j]>>],
              LAMBDA e : e[1] = i)

\* where m nodes may stand in k table children: place[j] is the child that holds
\* node j, and it does not decrease with j
Places(k, m) == {f \in [1..m -> 1..k] : \A j \in 1..(m - 1) : f[j] <= f[j + 1]}

\* the table whose children have these names and hold these nodes at these places
viewTableOf(names, nodes, place) ==
    ViewElement("table", NoAttributes,
        [i \in 1..Len(names) |->
            ViewElement(names[i], NoAttributes,
                [j \in 1..Len(childrenAt(nodes, place, i)) |->
                    childrenAt(nodes, place, i)[j][2]])])

ViewCells ==
    {ViewElement(name, NoAttributes, c) :
        name \in {"th", "td"}, c \in SeqsUpTo({ViewText}, MaxChildren)}

----------------------------------------------------------------------------
(* The state when the dispatcher fires the event of data.viewItem.         *)

\* a table met at the root, or in a paragraph of the root
InitTable ==
    /\ \E k \in 0..MaxTableNodes, inParagraph \in BOOLEAN :
       \E m \in 0..(MaxTableNodes - k) :
       \E names \in [1..k -> TableChildNames], nodes \in [1..m -> SectionChildren],
          place \in Places(k, m) :
          /\ modelRoot = IF inParagraph
                             THEN <<ModelElement("paragraph", NoAttributes, <<>>)>>
                             ELSE <<>>
          /\ data = [ viewItem    |-> viewTableOf(names, nodes, place),
                      modelCursor |-> IF inParagraph THEN Position(<<1>>, 0)
                                                     ELSE Position(<<>>, 0),
                      modelRange  |-> Null ]
    /\ consumable \in {{"name"}, {}}

\* a cell met at the end of the row of a table
InitTableCell ==
    /\ \E viewItem \in ViewCells, cells \in {<<>>, <<emptyTableCell>>} :
          /\ modelRoot = << ModelElement("table", NoAttributes,
                                <<ModelElement("tableRow", NoAttributes, cells)>>) >>
          /\ data = [ viewItem    |-> viewItem,
                      modelCursor |-> Position(<<1, 1>>, Len(cells)),
                      modelRange  |-> Null ]
    /\ consumable \in {{"name"}, {}}

Init ==
    /\ InitTable \/ InitTableCell
    /\ tableMeta = Null
    /\ dispatched = <<>>
    /\ outcome = "none"
    /\ rowScan = Null

----------------------------------------------------------------------------
(* The handler of 'element:table'.                                         *)

\* both attributes set without the checks for a value greater than 0
tableAttributesAlways(meta) ==
    [ a \in {"headingColumns", "headingRows"} |->
        IF a = "headingColumns" THEN meta.headingColumns ELSE meta.headingRows ]

\* const attributes = {}; if ( headingColumns ) ...; if ( headingRows ) ...
tableAttributes(meta) ==
    [ a \in {k \in {"headingColumns", "headingRows"} :
                \/ k = "headingColumns" /\ JsTruthy(meta.headingColumns)
                \/ k = "headingRows" /\ JsTruthy(meta.headingRows)} |->
        IF a = "headingColumns" THEN meta.headingColumns ELSE meta.headingRows ]

\* the view node of a row of the scan
rowAt(viewTable, ref) == viewTable.children[ref[1]].children[ref[2]]

\* the branch for the empty table left out
tableChildrenNoFallback(viewTable, rows, results) ==
    concat([k \in 1..Len(rows) |-> convertItem(rowAt(viewTable, rows[k]), results[k])])

\* the children of the new table: what convertItem leaves for each row of the
\* scan, or one row with one cell for a scan without rows
tableChildren(viewTable, rows, results) ==
    IF Len(rows) # 0
        THEN concat([k \in 1..Len(rows) |-> convertItem(rowAt(viewTable, rows[k]), results[k])])
        ELSE <<ModelElement("tableRow", NoAttributes, <<emptyTableCell>>)>>

UpcastTable ==
    LET viewTable == data.viewItem
        meta      == scanTable(viewTable)
    IN  /\ viewTable.name = "table"
        /\ UNCHANGED rowScan
        /\ \/ /\ ~consumableTest(consumable)
              /\ outcome' = "consumed"
              /\ UNCHANGED <<data, consumable, modelRoot, tableMeta, dispatched>>
           \/ /\ consumableTest(consumable)
              /\ meta.threw
              /\ outcome' = "threw"
              /\ UNCHANGED <<data, consumable, modelRoot, tableMeta, dispatched>>
           \/ /\ consumableTest(consumable)
              /\ ~meta.threw
              /\ tableMeta' = <<meta>>
              /\ \E splitResult \in splitToAllowedParent(modelRoot, "table", data.modelCursor) :
                    \/ /\ splitResult = Null
                       /\ outcome' = "unplaceable"
                       /\ UNCHANGED <<data, consumable, modelRoot, dispatched>>
                    \/ /\ splitResult # Null
                       /\ \E results \in [1..Len(meta.rows) -> {"nothing", "tableRow"}] :
                             LET split    == splitResult[1]
                                 table    == ModelElement("table", tableAttributes(meta),
                                                 tableChildren(viewTable, meta.rows, results))
                                 before   == split.position
                                 after    == Position(before.path, before.offset + 1)
                             IN  /\ \A k \in 1..Len(meta.rows) :
                                       results[k] \in RowResults(rowAt(viewTable, meta.rows[k]))
                                 /\ modelRoot' = writerInsert(split.root, table, split.position)
                                 /\ consumable' = consume(consumable)
                                 /\ dispatched' = dispatched \o meta.rows
                                 /\ data' = [data EXCEPT
                                        !.modelRange  = ModelRange(before, after),
                                        !.modelCursor =
                                            IF split.cursorParent # 0
                                                THEN Position(<<split.cursorParent + 1>>, 0)
                                                ELSE after]
                                 /\ outcome' = "converted"

----------------------------------------------------------------------------
(* The handler of 'element:th' and 'element:td'.                           *)

UpcastTableCell ==
    LET viewTableCell == data.viewItem
    IN  /\ viewTableCell.name \in {"th", "td"}
        /\ UNCHANGED <<tableMeta, dispatched, rowScan>>
        /\ \/ /\ ~consumableTest(consumable)
              /\ outcome' = "consumed"
              /\ UNCHANGED <<data, consumable, modelRoot>>
           \/ /\ consumableTest(consumable)
              /\ \E splitResult \in splitToAllowedParent(modelRoot, "tableCell", data.modelCursor) :
                    \/ /\ splitResult = Null
                       /\ outcome' = "unplaceable"
                       /\ UNCHANGED <<data, consumable, modelRoot>>
                    \/ /\ splitResult # Null
                       /\ \E results \in [1..Len(viewTableCell.children) -> ChildResults] :
                             LET split  == splitResult[1]
                                 before == split.position
                                 after  == Position(before.path, before.offset + 1)
                             IN  /\ modelRoot' = insertNodes(split.root, tableCellNodes(results),
                                                             split.position)
                                 /\ consumable' = consume(consumable)
                                 /\ data' = [data EXCEPT
                                        !.modelRange  = ModelRange(before, after),
                                        !.modelCursor = after]
                                 /\ outcome' = "converted"

Next == UpcastTable \/ UpcastTableCell

Spec == Init /\ [][Next]_vars

----------------------------------------------------------------------------
(* The row specification: scanRowForHeadingColumns applied to a <tr>.      *)

InitRow ==
    /\ \E tr \in ViewRows :
          data = [viewItem |-> tr, modelCursor |-> Position(<<>>, 0), modelRange |-> Null]
    /\ consumable = {"name"}
    /\ modelRoot = <<>>
    /\ tableMeta = Null
    /\ dispatched = <<>>
    /\ outcome = "none"
    /\ rowScan = Null

ScanRow ==
    /\ data.viewItem.name = "tr"
    /\ outcome = "none"
    /\ rowScan' = <<scanRowForHeadingColumns(data.viewItem)>>
    /\ outcome' = "scanned"
    /\ UNCHANGED <<data, consumable, modelRoot, tableMeta, dispatched>>

NextRow == ScanRow

SpecRow == InitRow /\ [][NextRow]_vars

----------------------------------------------------------------------------
(* What the claims speak of, read off the view and the model tree.         *)

IsTable == data.viewItem.name = "table"

IsTableCell == data.viewItem.name \in {"th", "td"}

\* the table handler ran the scan and the scan returned
Scanned == IsTable /\ tableMeta # Null

\* the places of all children of the children of a table, in document order
AllRefs(viewTable) ==
    concat([i \in 1..Len(viewTable.children) |->
               [j \in 1..Len(viewTable.children[i].children) |-> <<i, j>>]])

IsSection(viewTable, i) == viewTable.children[i].name \in {"thead", "tbody", "tfoot"}

\* the index of the first <thead> of a table, 0 when it has none
FirstThead(viewTable) ==
    LET theads == {i \in 1..Len(viewTable.children) : viewTable.children[i].name = "thead"}
    IN  IF theads = {} THEN 0 ELSE CHOOSE i \in theads : \A k \in theads : i <= k

\* the <tr>s of the sections, in document order
TrRefs(viewTable) ==
    SelectSeq(AllRefs(viewTable),
              LAMBDA r : IsSection(viewTable, r[1]) /\ rowAt(viewTable, r).name = "tr")

HeadTrRefs(viewTable) ==
    SelectSeq(TrRefs(viewTable), LAMBDA r : r[1] = FirstThead(viewTable))

BodyTrRefs(viewTable) ==
    SelectSeq(TrRefs(viewTable), LAMBDA r : r[1] # FirstThead(viewTable))

\* a string of digits that denotes a positive integer
RECURSIVE DecimalValue(_)
DecimalValue(str) ==
    IF str = <<>> THEN 0
    ELSE 10 * DecimalValue(SubSeq(str, 1, Len(str) - 1)) + DigitVal(str[Len(str)])

IsPositiveInteger(str) ==
    /\ str # <<>>
    /\ \A k \in 1..Len(str) : str[k] \in Digits
    /\ DecimalValue(str) > 0

ColspanWellFormed(cell) ==
    hasAttribute(cell, "colspan") => IsPositiveInteger(cell.attributes["colspan"])

\* the columns a <th> spans when a missing or malformed colspan counts as 1
SpanOrOne(cell) ==
    IF hasAttribute(cell, "colspan") /\ IsPositiveInteger(cell.attributes["colspan"])
        THEN DecimalValue(cell.attributes["colspan"])
        ELSE 1

\* the sum of the spans of the <th>s that start the cells, up to the first <td>
RECURSIVE LeadingSpan(_)
LeadingSpan(cells) ==
    IF cells = <<>> \/ Head(cells).name # "th" THEN 0
    ELSE SpanOrOne(Head(cells)) + LeadingSpan(Tail(cells))

ThTdOf(tr) == SelectSeq(tr.children, LAMBDA c : c.name \in {"th", "td"})

MaxOf(S) == IF S = {} THEN 0 ELSE CHOOSE x \in S : \A y \in S : y <= x

\* the table nodes among the children of the root
TablesIn(root) == SelectSeq(root, LAMBDA n : n.name = "table")

Range(seq) == {seq[k] : k \in 1..Len(seq)}

\* the tableCell nodes of the tree
CellsIn(root) ==
    UNION { UNION { {cell \in Range(row.children) : cell.name = "tableCell"} :
                    row \in Range(table.children) } :
            table \in Range(TablesIn(root)) }

----------------------------------------------------------------------------
(* The claims.                                                             *)

\* C1 (as claimed): the rows of the scan, and the rows handed to convertItem, are
\* the <tr>s of the first <thead> followed by the <tr>s of all other sections in
\* document order, each once.
C1_RowOrder ==
    Scanned =>
        /\ tableMeta[1].rows = HeadTrRefs(data.viewItem) \o BodyTrRefs(data.viewItem)
        /\ outcome = "converted" =>
               dispatched = HeadTrRefs(data.viewItem) \o BodyTrRefs(data.viewItem)

\* C2 (as claimed): headingRows is the number of <tr>s whose parent is the first
\* <thead> (0 without a <thead>), and the first headingRows rows of the scan are
\* exactly those <tr>s.
C2_HeadingRows ==
    Scanned =>
        LET head == HeadTrRefs(data.viewItem)
        IN  /\ tableMeta[1].headingRows = Num(Len(head))
            /\ Len(tableMeta[1].rows) >= Len(head)
            /\ SubSeq(tableMeta[1].rows, 1, Len(head)) = head

\* C3 (as claimed): when every colspan of a <th> is absent or a positive integer,
\* headingColumns is the greatest, over the <tr>s outside the first <thead>, of the
\* summed spans of the <th>s that start the row's th/td children.
C3_HeadingColumns ==
    ( /\ Scanned
      /\ \A r \in Range(AllRefs(data.viewItem)) :
            \A c \in Range(rowAt(data.viewItem, r).children) :
                c.name = "th" => ColspanWellFormed(c) )
    => tableMeta[1].headingColumns =
           Num(MaxOf({LeadingSpan(ThTdOf(rowAt(data.viewItem, r))) :
                         r \in Range(BodyTrRefs(data.viewItem))}))

\* C4 (as claimed): in the scan of a row a <th> whose colspan is missing or is not a
\* positive integer counts as one column, so the row's count is the sum over the
\* leading <th>s of the colspan, or of 1 for such a <th>; it is never NaN or negative.
C4_MalformedColspan ==
    outcome = "scanned" =>
        /\ ~rowScan[1].nan
        /\ rowScan[1].val >= 0
        /\ rowScan[1] = Num(LeadingSpan(ThTdOf(data.viewItem)))

\* C5 (as claimed): a run of the table handler either converts in full, and the tree
\* then holds exactly one new table with at least one row and at least one cell, or
\* changes nothing.
C5_FullConversionOrNothing ==
    IsTable =>
        LET tables == TablesIn(modelRoot)
        IN  /\ Len(tables) <= 1
            /\ outcome = "converted" => Len(tables) = 1
            /\ Len(tables) = 0 =>
                   /\ dispatched = <<>>
                   /\ data.modelRange = Null
            /\ \A k \in 1..Len(tables) :
                   /\ \E row \in Range(tables[k].children) : row.name = "tableRow"
                   /\ \E row \in Range(tables[k].children) :
                          \E cell \in Range(row.children) : cell.name = "tableCell"

\* the sections of the table have no children at all
NoSectionChildren(viewTable) ==
    \A i \in 1..Len(viewTable.children) :
        IsSection(viewTable, i) => viewTable.children[i].children = <<>>

\* C6: a table without rows (no children, no sections, or empty sections only), once
\* converted, is a table of exactly one tableRow with exactly one tableCell; no row
\* was handed to convertItem and the table has no heading attribute.
C6_EmptyTable ==
    (IsTable /\ outcome = "converted" /\ NoSectionChildren(data.viewItem)) =>
        LET tables == TablesIn(modelRoot)
        IN  /\ Len(tables) = 1
            /\ Len(tables[1].children) = 1
            /\ tables[1].children[1].name = "tableRow"
            /\ Len(tables[1].children[1].children) = 1
            /\ tables[1].children[1].children[1].name = "tableCell"
            /\ dispatched = <<>>
            /\ tableMeta[1].headingRows = Num(0)
            /\ tableMeta[1].headingColumns = Num(0)
            /\ DOMAIN tables[1].attributes = {}

C6_Witness ==
    /\ IsTable
    /\ outcome = "converted"
    /\ NoSectionChildren(data.viewItem)
    /\ \E i \in 1..Len(data.viewItem.children) : IsSection(data.viewItem, i)
    /\ \E i \in 1..Len(data.viewItem.children) : ~IsSection(data.viewItem, i)

\* C7: a run of either handler on a consumed view item, or one that
\* splitToAllowedParent refuses, changes neither the tree nor the ledger nor
\* data.modelRange and data.modelCursor, hands no row to convertItem, and leaves a
\* refused item unconsumed; it ends without an exception.
C7_NoConversionNoChange ==
    [][ (~("name" \in consumable) \/ outcome' = "unplaceable") =>
            /\ UNCHANGED <<modelRoot, consumable, dispatched, data>>
            /\ outcome' \in {"consumed", "unplaceable"}
            /\ outcome' = "unplaceable" => "name" \in consumable' ]_vars

C7_Witness ==
    /\ IsTable
    /\ outcome = "unplaceable"
    /\ "name" \in consumable
    /\ tableMeta # Null
    /\ tableMeta[1].rows # <<>>
    /\ dispatched = <<>>
    /\ TablesIn(modelRoot) = <<>>

\* C8: on the table the handler created, headingRows is present exactly when the
\* scanned headingRows is greater than 0 and headingColumns exactly when the scanned
\* headingColumns is; a present attribute has the scanned value, which is a number
\* greater than 0.
C8_HeadingAttributes ==
    (IsTable /\ TablesIn(modelRoot) # <<>>) =>
        LET attributes == TablesIn(modelRoot)[1].attributes
            meta       == tableMeta[1]
        IN  \A a \in {"headingRows", "headingColumns"} :
                /\ a \in DOMAIN attributes <=> (~meta[a].nan /\ meta[a].val > 0)
                /\ a \in DOMAIN attributes =>
                       /\ attributes[a] = meta[a]
                       /\ ~attributes[a].nan
                       /\ attributes[a].val > 0

C8_Witness ==
    /\ IsTable
    /\ TablesIn(modelRoot) # <<>>
    /\ DOMAIN TablesIn(modelRoot)[1].attributes = {"headingColumns"}
    /\ \E r \in Range(tableMeta[1].rows) :
          \E c \in Range(rowAt(data.viewItem, r).children) :
              hasAttribute(c, "colspan") /\ ~IsPositiveInteger(c.attributes["colspan"])

\* C9 (as claimed): every tableCell of the destination tree has at least one child,
\* also when the conversion of a child split the cell.
C9_NoEmptyCell ==
    \A cell \in CellsIn(modelRoot) : Len(cell.children) >= 1

\* C10 (as claimed): every row of the scan, and every row handed to convertItem, is
\* a <tr>; a child of a section that is no <tr> is not counted in headingRows.
C10_RowsAreTr ==
    Scanned =>
        /\ \A r \in Range(tableMeta[1].rows) : rowAt(data.viewItem, r).name = "tr"
        /\ \A r \in Range(dispatched) : rowAt(data.viewItem, r).name = "tr"
        /\ tableMeta[1].headingRows.val <= Len(HeadTrRefs(data.viewItem))

====
